---- MODULE Spec2Model ----
(***************************************************************************)
(* DataLoader (data-loader.js): CSV parsing, min-max normalization,        *)
(* sliding-window dataset construction, chronological train/test split,    *)
(* latest-window extraction and denormalization.                           *)
(*                                                                         *)
(* Numbers.  Raw cell values are integers.  Every value the code obtains   *)
(* by a division is kept as an exact fraction <<n, d>> in lowest terms     *)
(* with d > 0; IEEE rounding is not modelled.  <<0, 0>> stands for the     *)
(* value JavaScript yields when an array is read past its end (undefined,  *)
(* NaN once it is inside a float tensor).                                  *)
(***************************************************************************)
EXTENDS Integers, Sequences, FiniteSets, TLC

VARIABLES
    data,                \* this.data: [null |-> BOOLEAN, rows |-> sequence of rows]
    featureColumns,      \* this.featureColumns: sequence of header names
    targetColumn,        \* this.targetColumn
    sequenceLength,      \* this.sequenceLength (lookback)
    forecastDays,        \* this.forecastDays (horizon)
    trainTestSplit,      \* this.trainTestSplit as a fraction <<num, den>>
    normalizationParams, \* this.normalizationParams: name -> [min, max, range]
    result,              \* outcome of the last call a session made on the DataLoader
    \* GRUModel (gru.js)
    model,               \* this.model: 0 for null, else the number of the tf model
    isTraining,          \* this.isTraining
    trainingHistory,     \* this.trainingHistory.epochs (the other arrays grow with it)
    tfModels,            \* every tf model built so far: [disposed, stopTraining]
    runs,                \* every started train() call: its fit and its callbacks
    gruResult,           \* outcome of the last GRUModel call
    \* StockPredictorApp (app.js)
    isDataLoaded,        \* this.isDataLoaded
    isModelTrained,      \* this.isModelTrained
    currentFile,         \* this.currentFile: [null |-> BOOLEAN, csv |-> the file's text]
    predictions,         \* this.predictions
    datasets,            \* this.datasets: [null |-> BOOLEAN, ...]
    reading,             \* the files loadAndPrepareData calls are reading
    buttons,             \* the disabled property of the page's buttons
    appResult,           \* outcome of the last handler of the application
    \* StockPredictorApp, the variant that owns its loader and model (part_001)
    instIsTraining,      \* this.isTraining
    instModel,           \* this.model: 0 = null, else the number of the GRUModel
    normalizedData,      \* this.dataLoader.normalizedData is set
    trainCalls,          \* the trainModel calls made on the instance
    fileLoads,           \* handleFileSelect calls awaiting loadCSV
    \* the notes function (index.js)
    driver,              \* the module's driver
    notes,               \* ids of the rows of table notes
    invocations          \* the invocations of handler

dlVars == <<data, featureColumns, targetColumn, sequenceLength, forecastDays,
            trainTestSplit, normalizationParams, result>>

gruVars == <<model, isTraining, trainingHistory, tfModels, runs, gruResult>>

appVars == <<isDataLoaded, isModelTrained, currentFile, predictions, datasets,
             reading, buttons, appResult>>

instVars == <<instIsTraining, instModel, normalizedData, trainCalls, fileLoads>>

notesVars == <<driver, notes, invocations>>

otherVars == <<instVars, notesVars>>

vars == <<dlVars, gruVars, appVars, otherVars>>

(***************************************************************************)
(* Bounds of the model.                                                    *)
(***************************************************************************)
MaxRows == 3              \* data lines of a file loaded during a session
MaxSessionLookback == 2   \* sequenceLength of a session
MaxSeriesLen == 10        \* data lines of a series that is windowed
MaxLookback == 3          \* sequenceLength when a series is windowed
MaxHorizon == 2           \* forecastDays when a series is windowed
MaxArrayLen == 3          \* length of an array that is normalized
MaxModels == 2            \* tf models built in a behaviour
MaxRuns == 2              \* train() calls that reach model.fit in a behaviour
MaxEpochs == 2            \* epochs of a fit (50 in the code)
MaxAppRuns == 1           \* trainModel calls that pass the guard in a behaviour
MaxPageRuns == 2          \* trainModel calls that pass the guard on the page
MaxTrainCalls == 3        \* trainModel calls on the instance variant
MaxFileLoads == 1         \* handleFileSelect calls awaiting their file at a time
MaxInvocations == 1       \* invocations of the notes handler not yet delivered
MaxNotes == 1             \* distinct ids of the notes saved

NoteIds == 1..MaxNotes

\* Constructor defaults.
DefaultSequenceLength == 60
DefaultForecastDays == 5
DefaultTrainTestSplit == <<4, 5>>     \* 0.8

(***************************************************************************)
(* Arithmetic helpers.                                                     *)
(***************************************************************************)
Abs(x) == IF x < 0 THEN -x ELSE x

RECURSIVE GCD(_, _)
GCD(a, b) == IF b = 0 THEN a ELSE GCD(b, a % b)

\* The fraction n/d in lowest terms, d > 0.
Frac(n, d) ==
    LET g == GCD(Abs(n), Abs(d))
        s == IF d < 0 THEN -1 ELSE 1
    IN  <<s * (n \div g), s * (d \div g)>>

Rat(x) == <<x, 1>>

Undefined == <<0, 0>>

RatAdd(p, q) == Frac(p[1] * q[2] + q[1] * p[2], p[2] * q[2])

RatMul(p, q) == Frac(p[1] * q[1], p[2] * q[2])

RatLess(p, q) == p[1] * q[2] < q[1] * p[2]

RECURSIVE SeqMin(_)
SeqMin(s) ==
    IF Len(s) = 1 THEN s[1]
    ELSE LET m == SeqMin(Tail(s)) IN IF s[1] < m THEN s[1] ELSE m

RECURSIVE SeqMax(_)
SeqMax(s) ==
    IF Len(s) = 1 THEN s[1]
    ELSE LET m == SeqMax(Tail(s)) IN IF s[1] > m THEN s[1] ELSE m

\* Array.prototype.slice(from, to) with 0-based, end-exclusive, non-negative
\* indices: out-of-range ends are clamped.
Slice(s, from, to) ==
    LET lo == IF from > Len(s) THEN Len(s) ELSE from
        hi == IF to > Len(s) THEN Len(s) ELSE to
    IN  IF hi <= lo THEN <<>> ELSE [k \in 1..(hi - lo) |-> s[lo + k]]

\* Array.prototype.slice(-n): the last n elements; slice(-0) is slice(0).
SliceLast(s, n) ==
    IF n <= 0 \/ n >= Len(s) THEN s ELSE Slice(s, Len(s) - n, Len(s))

\* arr[i] with a 0-based index: undefined past the end.
At(arr, i) == IF i >= 0 /\ i < Len(arr) THEN arr[i + 1] ELSE Undefined

\* The kept elements in reverse order.
RECURSIVE SelectRows_Reversed(_, _)
SelectRows_Reversed(s, keep) ==
    IF s = <<>> THEN <<>>
    ELSE IF keep[1] THEN SelectRows_Reversed(Tail(s), Tail(keep)) \o <<s[1]>>
         ELSE SelectRows_Reversed(Tail(s), Tail(keep))

RECURSIVE SelectRows(_, _)
SelectRows(s, keep) ==
    IF s = <<>> THEN <<>>
    ELSE IF keep[1] THEN <<s[1]>> \o SelectRows(Tail(s), Tail(keep))
         ELSE SelectRows(Tail(s), Tail(keep))

(***************************************************************************)
(* Error kinds: what each throw of the code looks like to a caller.        *)
(***************************************************************************)
ErrNoData == "NoDataLoaded"                 \* Error('No data loaded')
ErrParamsNotFound == "ParameterNotFound"    \* Error('Normalization parameters not found for ...')
ErrEmptyCsv == "EmptyCsv"                   \* Error('CSV file is empty or has only headers')
ErrType == "TypeError"                      \* property read of undefined
ErrTensor == "TensorError"                  \* thrown inside tf.tensor2d / tf.tensor3d
ErrInsufficientData == "InsufficientData"   \* named by the documentation; no throw in the code
NoError == "none"

Thrown(op, args, kind) ==
    [op |-> op, args |-> args, status |-> "error", error |-> kind, value |-> <<>>]

Returned(op, args, v) ==
    [op |-> op, args |-> args, status |-> "ok", error |-> NoError, value |-> v]

(***************************************************************************)
(* parseCSV.  A file is its header names and its non-blank data lines,     *)
(* each line one integer cell per header.                                  *)
(***************************************************************************)
IncludesPrice(h) == h \in {"Price"}
IncludesClose(h) == h \in {"Close"}
IncludesValue(h) == h \in {"Value"}

\* headers.filter(h => h !== 'Date' && h !== target && includes('price')
\*                     || includes('close') || includes('value'))
IsFeatureHeader(h, target) ==
    \/ (h # "Date" /\ h # target /\ IncludesPrice(h))
    \/ IncludesClose(h)
    \/ IncludesValue(h)

SelectFeatureHeaders(headers, target) ==
    SelectSeq(headers, LAMBDA h : IsFeatureHeader(h, target))

ParsedFeatureColumns(headers, target) ==
    IF Len(headers) = 1 THEN <<"Close">>
    ELSE IF SelectFeatureHeaders(headers, target) # <<>>
         THEN SelectFeatureHeaders(headers, target)
         ELSE SelectSeq(headers, LAMBDA h : h # "Date")

HeaderSet(headers) == {headers[k] : k \in 1..Len(headers)}

HeaderIndex(headers, h) == CHOOSE k \in 1..Len(headers) : headers[k] = h

\* One parsed row of a multi-column file: every header's cell, and the target
\* column copied from the first feature column when the file has none.
ParsedRow(headers, line, target) ==
    LET fc == ParsedFeatureColumns(headers, target)
    IN  [h \in HeaderSet(headers) \cup {target} |->
            IF h \in HeaderSet(headers) THEN line[HeaderIndex(headers, h)]
            ELSE line[HeaderIndex(headers, fc[1])]]

ParsedRows(headers, lines, target) ==
    IF Len(headers) = 1
    THEN \* rows.push only when !isNaN(value) && value > 0
         LET kept == SelectRows(lines, [k \in 1..Len(lines) |-> lines[k][1] > 0])
         IN  [k \in 1..Len(kept) |-> [h \in {"Close"} |-> kept[k][1]]]
    ELSE [k \in 1..Len(lines) |-> ParsedRow(headers, lines[k], target)]

NoData == data.null \/ Len(data.rows) = 0

ParseCSV(csv) ==
    IF Len(csv.lines) < 1
    THEN /\ result' = Thrown("parseCSV", <<csv>>, ErrEmptyCsv)
         /\ UNCHANGED <<data, featureColumns>>
    ELSE /\ featureColumns' = ParsedFeatureColumns(csv.headers, targetColumn)
         /\ data' = [null |-> FALSE,
                     rows |-> ParsedRows(csv.headers, csv.lines, targetColumn)]
         /\ result' = Returned("parseCSV", <<csv>>, <<>>)

(***************************************************************************)
(* Input files.                                                            *)
(***************************************************************************)
Layouts == {<<"Close">>, <<"Price", "Close">>, <<"Open", "High">>}

\* Files following a pattern: a constant series, a ramp whose cells are all
\* distinct, and a ramp with a zero on every even line.
Patterns == {"flat", "ramp", "gap"}

PatternCell(p, i, k) ==
    CASE p = "flat" -> 2
      [] p = "ramp" -> i + 20 * (k - 1)
      [] p = "gap"  -> IF i % 2 = 0 THEN 0 ELSE i + k

PatternFile(h, p, n) ==
    [headers |-> h,
     lines |-> [i \in 1..n |-> [k \in 1..Len(h) |-> PatternCell(p, i, k)]]]

PatternFiles(maxLen) ==
    {PatternFile(h, p, n) : h \in Layouts, p \in Patterns, n \in 0..maxLen}

(***************************************************************************)
(* normalizeArray / normalizeFeatures / denormalizeArray.                  *)
(***************************************************************************)
FeatureName(index) ==
    CASE index = 0 -> "feature_0"
      [] index = 1 -> "feature_1"
      [] index = 2 -> "feature_2"
      [] OTHER     -> "feature_n"

NoParams == [n \in {} |-> 0]

HasParams(params, name) == name \in DOMAIN params

SetParams(params, name, entry) ==
    [n \in DOMAIN params \cup {name} |-> IF n = name THEN entry ELSE params[n]]

NormalizeArrayParams_ZeroRange(array) ==
    LET min == SeqMin(array)
        max == SeqMax(array)
    IN  [min |-> min, max |-> max, range |-> max - min]

\* { min, max, range: max - min || 1 }
NormalizeArrayParams(array) ==
    LET min == SeqMin(array)
        max == SeqMax(array)
    IN  [min |-> min, max |-> max, range |-> IF max - min = 0 THEN 1 ELSE max - min]

\* array.map(val => (val - min) / (max - min || 1))
NormalizeArrayValues(array) ==
    LET min == SeqMin(array)
        max == SeqMax(array)
    IN  [k \in 1..Len(array) |->
            Frac(array[k] - min, IF max - min = 0 THEN 1 ELSE max - min)]

DenormalizeValues_NoOffset(normalizedArray, params) ==
    [k \in 1..Len(normalizedArray) |-> RatMul(normalizedArray[k], Rat(params.range))]

\* normalizedArray.map(val => val * params.range + params.min)
DenormalizeValues(normalizedArray, params) ==
    [k \in 1..Len(normalizedArray) |->
        RatAdd(RatMul(normalizedArray[k], Rat(params.range)), Rat(params.min))]

\* this.data.map(row => row[col])
Column(rows, col) == [k \in 1..Len(rows) |-> rows[k][col]]

\* The table if every feature were recorded with the first feature's values.
RECURSIVE ParamsAfterFeatures_FirstColumn(_, _, _)
ParamsAfterFeatures_FirstColumn(params, features, upto) ==
    IF upto = 0 THEN params
    ELSE SetParams(ParamsAfterFeatures_FirstColumn(params, features, upto - 1),
                   FeatureName(upto - 1), NormalizeArrayParams(features[1]))

\* The table after normalizeArray ran for the feature arrays 0 .. upto-1.
RECURSIVE ParamsAfterFeatures(_, _, _)
ParamsAfterFeatures(params, features, upto) ==
    IF upto = 0 THEN params
    ELSE SetParams(ParamsAfterFeatures(params, features, upto - 1),
                   FeatureName(upto - 1), NormalizeArrayParams(features[upto]))

NormalizeFeatures(features) ==
    [f \in 1..Len(features) |-> NormalizeArrayValues(features[f])]

(***************************************************************************)
(* createMultiDaySequences.                                                *)
(***************************************************************************)
TotalSamples_NoPlusOne(normalizedTarget, L, H) == Len(normalizedTarget) - L - H

TotalSamples(normalizedTarget, L, H) == Len(normalizedTarget) - L - H + 1

\* The window starting at 0-based offset i: L time-steps, each one value per
\* feature in the order of normalizedFeatures.
BuildSequence(normalizedFeatures, i, L) ==
    [j \in 1..L |->
        [f \in 1..Len(normalizedFeatures) |-> At(normalizedFeatures[f], i + j - 1)]]

BuildSequences(normalizedFeatures, normalizedTarget, L, H) ==
    LET total == TotalSamples(normalizedTarget, L, H)
    IN  [w \in 1..(IF total > 0 THEN total ELSE 0) |->
            BuildSequence(normalizedFeatures, w - 1, L)]

BuildTargets_OneEarly(normalizedTarget, L, H) ==
    LET total == TotalSamples(normalizedTarget, L, H)
    IN  [w \in 1..(IF total > 0 THEN total ELSE 0) |->
            Slice(normalizedTarget, (w - 1) + L - 1, (w - 1) + L + H - 1)]

BuildTargets(normalizedTarget, L, H) ==
    LET total == TotalSamples(normalizedTarget, L, H)
    IN  [w \in 1..(IF total > 0 THEN total ELSE 0) |->
            Slice(normalizedTarget, (w - 1) + L, (w - 1) + L + H)]

\* Math.floor(sequences.length * this.trainTestSplit)
SplitIndex(count, ratio) == (count * ratio[1]) \div ratio[2]

TrainPart(arr, splitIndex) == Slice(arr, 0, splitIndex)

TestPart_SkipsOne(arr, splitIndex) == Slice(arr, splitIndex + 1, Len(arr))

TestPart(arr, splitIndex) == Slice(arr, splitIndex, Len(arr))

\* The object createMultiDaySequences returns when every tensor is created.
Dataset(normalizedFeatures, normalizedTarget, L, H, ratio, names) ==
    LET sequences == BuildSequences(normalizedFeatures, normalizedTarget, L, H)
        targets == BuildTargets(normalizedTarget, L, H)
        splitIndex == SplitIndex(Len(sequences), ratio)
    IN  [X_train |-> TrainPart(sequences, splitIndex),
         y_train |-> TrainPart(targets, splitIndex),
         X_test |-> TestPart(sequences, splitIndex),
         y_test |-> TestPart(targets, splitIndex),
         featureNames |-> names,
         sequenceLength |-> L,
         forecastDays |-> H]

\* Some array handed to tf.tensor3d / tf.tensor2d has no sample, or samples of
\* no time-step (lookback 0) or of no target value (horizon 0).
EmptyArray(arr) == Len(arr) = 0 \/ \E w \in 1..Len(arr) : Len(arr[w]) = 0

HasEmptyTensor(ds) ==
    \/ EmptyArray(ds.X_train) \/ EmptyArray(ds.y_train)
    \/ EmptyArray(ds.X_test) \/ EmptyArray(ds.y_test)

(***************************************************************************)
(* preprocessData.  tf.tensor2d / tf.tensor3d of an empty array is the     *)
(* library's business: it either throws or yields an empty tensor          *)
(* (tfThrows).  The table is written before the tensors are created.       *)
(***************************************************************************)
PreprocessFeatures == [f \in 1..Len(featureColumns) |-> Column(data.rows, featureColumns[f])]

PreprocessTarget == Column(data.rows, targetColumn)

PreprocessParams ==
    SetParams(ParamsAfterFeatures(normalizationParams, PreprocessFeatures,
                                  Len(PreprocessFeatures)),
              "target", NormalizeArrayParams(PreprocessTarget))

PreprocessDataset ==
    Dataset(NormalizeFeatures(PreprocessFeatures),
            NormalizeArrayValues(PreprocessTarget),
            sequenceLength, forecastDays, trainTestSplit, featureColumns)

PreprocessData ==
    \E tfThrows \in BOOLEAN :
        /\ IF NoData
           THEN /\ result' = Thrown("preprocessData", <<>>, ErrNoData)
                /\ UNCHANGED normalizationParams
           ELSE IF Len(featureColumns) = 0
           THEN \* features[0].length reads a property of undefined
                /\ result' = Thrown("preprocessData", <<>>, ErrType)
                /\ UNCHANGED normalizationParams
           ELSE /\ normalizationParams' = PreprocessParams
                /\ result' = IF HasEmptyTensor(PreprocessDataset) /\ tfThrows
                             THEN Thrown("preprocessData", <<>>, ErrTensor)
                             ELSE Returned("preprocessData", <<>>, PreprocessDataset)
        /\ UNCHANGED <<data, featureColumns, targetColumn, sequenceLength,
                       forecastDays, trainTestSplit>>
        /\ UNCHANGED <<gruVars, appVars, otherVars>>

(***************************************************************************)
(* getLatestWindow.                                                        *)
(***************************************************************************)
LatestFeatures ==
    [f \in 1..Len(featureColumns) |->
        Column(SliceLast(data.rows, sequenceLength), featureColumns[f])]

\* Some feature array is mapped with params undefined: params.min throws.
LatestWindowMissingParams ==
    \E f \in 1..Len(featureColumns) :
        /\ ~HasParams(normalizationParams, FeatureName(f - 1))
        /\ Len(LatestFeatures[f]) > 0

LatestNormalizedFeatures ==
    [f \in 1..Len(featureColumns) |->
        LET params == normalizationParams[FeatureName(f - 1)]
        IN  [k \in 1..Len(LatestFeatures[f]) |->
                Frac(LatestFeatures[f][k] - params.min, params.range)]]

\* for (i < sequenceLength) sequence.push(normalizedFeatures.map(f => f[i]))
LatestSequence ==
    [i \in 1..sequenceLength |->
        [f \in 1..Len(featureColumns) |-> At(LatestNormalizedFeatures[f], i - 1)]]

\* The table if the window were normalized with freshly computed parameters.
GetLatestWindowParams_Recomputed ==
    IF NoData THEN normalizationParams
    ELSE ParamsAfterFeatures(normalizationParams, LatestFeatures, Len(LatestFeatures))

\* getLatestWindow assigns nothing to this.normalizationParams.
GetLatestWindowParams == normalizationParams

GetLatestWindow ==
    /\ IF NoData
       THEN result' = Thrown("getLatestWindow", <<>>, ErrNoData)
       ELSE IF LatestWindowMissingParams
       THEN result' = Thrown("getLatestWindow", <<>>, ErrType)
       ELSE result' = Returned("getLatestWindow", <<>>, <<LatestSequence>>)
    /\ normalizationParams' = GetLatestWindowParams
    /\ UNCHANGED <<data, featureColumns, targetColumn, sequenceLength,
                   forecastDays, trainTestSplit>>
    /\ UNCHANGED <<gruVars, appVars, otherVars>>

(***************************************************************************)
(* getStats.  Prices are kept as exact fractions of hundredths, the way    *)
(* toFixed(2) prints them; meanReturn and volatility (a division by the    *)
(* previous price and a square root) are left out of the record.           *)
(***************************************************************************)
RECURSIVE SeqSum(_)
SeqSum(s) == IF s = <<>> THEN 0 ELSE s[1] + SeqSum(Tail(s))

\* (n/d).toFixed(2) for a non-negative n/d: rounded to the nearest hundredth.
ToFixed2(n, d) == Frac((200 * n + d) \div (2 * d), 100)

\* What getStats returns for no data.
StatsNull == [null |-> TRUE]

StatsOf(rows) ==
    LET targetValues == Column(rows, targetColumn)
    IN  [null |-> FALSE,
         totalDays |-> Len(rows),
         minPrice |-> ToFixed2(SeqMin(targetValues), 1),
         maxPrice |-> ToFixed2(SeqMax(targetValues), 1),
         meanPrice |-> ToFixed2(SeqSum(targetValues), Len(targetValues)),
         featureCount |-> Len(featureColumns),
         features |-> featureColumns]

GetStats ==
    /\ result' = IF NoData
                 THEN Returned("getStats", <<>>, StatsNull)
                 ELSE Returned("getStats", <<>>, StatsOf(data.rows))
    /\ UNCHANGED <<data, featureColumns, targetColumn, sequenceLength,
                   forecastDays, trainTestSplit, normalizationParams>>
    /\ UNCHANGED <<gruVars, appVars, otherVars>>

(***************************************************************************)
(* denormalizeArray.                                                       *)
(***************************************************************************)
ParamNames == {"target", "feature_1"}

DenormalizeArray_PassThrough(normalizedArray, name) ==
    /\ IF ~HasParams(normalizationParams, name)
       THEN result' = Returned("denormalizeArray", <<normalizedArray, name>>,
                               normalizedArray)
       ELSE result' = Returned("denormalizeArray", <<normalizedArray, name>>,
                               DenormalizeValues(normalizedArray,
                                                 normalizationParams[name]))
    /\ UNCHANGED <<data, featureColumns, targetColumn, sequenceLength,
                   forecastDays, trainTestSplit, normalizationParams>>
    /\ UNCHANGED <<gruVars, appVars, otherVars>>

DenormalizeArray(normalizedArray, name) ==
    /\ IF ~HasParams(normalizationParams, name)
       THEN result' = Thrown("denormalizeArray", <<normalizedArray, name>>,
                             ErrParamsNotFound)
       ELSE result' = Returned("denormalizeArray", <<normalizedArray, name>>,
                               DenormalizeValues(normalizedArray,
                                                 normalizationParams[name]))
    /\ UNCHANGED <<data, featureColumns, targetColumn, sequenceLength,
                   forecastDays, trainTestSplit, normalizationParams>>
    /\ UNCHANGED <<gruVars, appVars, otherVars>>

(***************************************************************************)
(* dispose.                                                                *)
(***************************************************************************)
\* A dispose that leaves the parameter table as it is.
Dispose_KeepsParams ==
    /\ data' = [null |-> TRUE, rows |-> <<>>]
    /\ featureColumns' = <<>>
    /\ result' = Returned("dispose", <<>>, <<>>)
    /\ UNCHANGED <<targetColumn, sequenceLength, forecastDays, trainTestSplit,
                   normalizationParams>>
    /\ UNCHANGED <<gruVars, appVars, otherVars>>

Dispose ==
    /\ data' = [null |-> TRUE, rows |-> <<>>]
    /\ featureColumns' = <<>>
    /\ normalizationParams' = NoParams
    /\ result' = Returned("dispose", <<>>, <<>>)
    /\ UNCHANGED <<targetColumn, sequenceLength, forecastDays, trainTestSplit>>
    /\ UNCHANGED <<gruVars, appVars, otherVars>>

(***************************************************************************)
(* GRUModel (gru.js).  A tf model is known by its number in tfModels; the  *)
(* library's part of a training run is the loop of model.fit: it clears    *)
(* the model's stopTraining flag when it starts, calls onEpochEnd after    *)
(* each epoch, leaves the loop when the flag is set or the last epoch is   *)
(* done, then calls onTrainEnd and resolves.  fit rejects when another fit *)
(* is running on the same model, may reject at any moment for reasons of   *)
(* its own, and cannot finish an epoch on a disposed model.  The 50 epochs *)
(* of the code are scaled down to MaxEpochs.                               *)
(***************************************************************************)
ErrModelNotBuilt == "ModelNotBuilt"         \* Error('Model not built. Call buildModel() first.')
ErrNoTrainingData == "TrainingDataNotProvided"  \* Error('Training data not provided')
ErrModelNotTrained == "ModelNotTrained"     \* Error('Model not trained')
ErrFit == "FitError"                        \* whatever model.fit rejects with

GruReturned(op, m) == [op |-> op, status |-> "ok", error |-> NoError, model |-> m]

GruThrown(op, kind) == [op |-> op, status |-> "error", error |-> kind, model |-> 0]

\* train() has called model.fit and awaits it.
GruPending(op, m) == [op |-> op, status |-> "pending", error |-> NoError, model |-> m]

NewTfModel == [disposed |-> FALSE, stopTraining |-> FALSE]

\* model.dispose() on the tf model numbered m, if any.
DisposeTf(models, m) ==
    IF m = 0 THEN models ELSE [models EXCEPT ![m].disposed = TRUE]

\* model.stopTraining = true on the tf model numbered m, if any.
FlagStop(models, m) ==
    IF m = 0 THEN models ELSE [models EXCEPT ![m].stopTraining = TRUE]

\* buildModel: if (this.model) this.model.dispose(); this.model = tf.sequential()
BuiltModels == Append(DisposeTf(tfModels, model), NewTfModel)

BuildModel ==
    /\ Len(tfModels) < MaxModels
    /\ tfModels' = BuiltModels
    /\ model' = Len(tfModels) + 1
    /\ gruResult' = GruReturned("buildModel", Len(tfModels) + 1)
    /\ UNCHANGED <<isTraining, trainingHistory, runs>>
    /\ UNCHANGED <<dlVars, appVars, otherVars>>

\* A train() call that reached model.fit: the tf model it fits, the epochs
\* completed, fitting / resolved / rejected, how often the caller's onTrainEnd
\* ran, and who called ("direct" or the application).
NewRun(m, status, caller) ==
    [model |-> m, epoch |-> 0, status |-> status, trainEnds |-> 0,
     caller |-> caller]

Fitting(r) == runs[r].status = "fitting"

FitOngoing(m) == \E r \in 1..Len(runs) : Fitting(r) /\ runs[r].model = m

IsTrainingAfterCatch_Kept == isTraining

\* catch (error) { this.isTraining = false; throw error; }
IsTrainingAfterCatch == FALSE

\* !this.model in train()
ModelMissing == model = 0

NoModel_Never == FALSE

\* !this.model in predict, evaluate, forecast and saveWeights
NoModel == model = 0

\* The part of train() up to the await of model.fit.
TrainCall(provided, caller) ==
    IF ModelMissing
    THEN /\ gruResult' = GruThrown("train", ErrModelNotBuilt)
         /\ UNCHANGED <<model, isTraining, trainingHistory, tfModels, runs>>
    ELSE IF ~provided
    THEN /\ gruResult' = GruThrown("train", ErrNoTrainingData)
         /\ UNCHANGED <<model, isTraining, trainingHistory, tfModels, runs>>
    ELSE /\ Len(runs) < MaxRuns
         /\ IF FitOngoing(model)
            THEN \* fit rejects at once: isTraining was set and the catch clears it
                 /\ isTraining' = IsTrainingAfterCatch
                 /\ runs' = Append(runs, NewRun(model, "rejected", caller))
                 /\ gruResult' = GruThrown("train", ErrFit)
                 /\ UNCHANGED tfModels
            ELSE /\ isTraining' = TRUE
                 /\ runs' = Append(runs, NewRun(model, "fitting", caller))
                 /\ tfModels' = [tfModels EXCEPT ![model].stopTraining = FALSE]
                 /\ gruResult' = GruPending("train", model)
         /\ UNCHANGED <<model, trainingHistory>>

Train ==
    \E provided \in BOOLEAN :
        /\ TrainCall(provided, "direct")
        /\ UNCHANGED <<dlVars, appVars, otherVars>>

\* The caller's onTrainEnd: the application's sets isModelTrained.
CallerOnTrainEnd(caller) ==
    IF caller = "app"
    THEN /\ isModelTrained' = TRUE
         /\ buttons' = [buttons EXCEPT !.predictBtn = FALSE, !.trainBtn = TRUE,
                                        !.stopTrainBtn = TRUE]
         /\ UNCHANGED <<isDataLoaded, currentFile, predictions, datasets, reading,
                        appResult>>
    ELSE UNCHANGED appVars

\* The caller's handling of a rejected train(): the application's catch.
CallerCatch(caller) ==
    IF caller = "app"
    THEN /\ isModelTrained' = FALSE
         /\ buttons' = [buttons EXCEPT !.trainBtn = FALSE, !.stopTrainBtn = TRUE,
                                        !.predictBtn = TRUE]
         /\ UNCHANGED <<isDataLoaded, currentFile, predictions, datasets, reading,
                        appResult>>
    ELSE UNCHANGED appVars

FitStops_IgnoresFlag(tfModel, epoch) == epoch = MaxEpochs

\* After an epoch, fit leaves its loop when stopTraining is set or the last
\* epoch is done.
FitStops(tfModel, epoch) == tfModel.stopTraining \/ epoch = MaxEpochs

\* An epoch of run r ends: onEpochEnd records it in this.trainingHistory and
\* sets this.model.stopTraining when this.isTraining is false; when fit then
\* leaves its loop, onTrainEnd clears isTraining and calls the caller's
\* onTrainEnd, and train() resolves.  (this.model is not null here: a null
\* this.model means every tf model is disposed.)
EpochEndOf(r) ==
    LET run == runs[r]
        epoch == run.epoch + 1
        flagged == IF ~isTraining THEN FlagStop(tfModels, model) ELSE tfModels
    IN  /\ Fitting(r)
        /\ ~tfModels[run.model].disposed
        /\ trainingHistory' = Append(trainingHistory, epoch)
        /\ tfModels' = flagged
        /\ IF FitStops(flagged[run.model], epoch)
           THEN /\ isTraining' = FALSE
                /\ runs' = [runs EXCEPT ![r] = [run EXCEPT !.epoch = epoch,
                                                           !.status = "resolved",
                                                           !.trainEnds = @ + 1]]
                /\ gruResult' = GruReturned("train", run.model)
                /\ CallerOnTrainEnd(run.caller)
           ELSE /\ runs' = [runs EXCEPT ![r].epoch = epoch]
                /\ UNCHANGED <<isTraining, gruResult>>
                /\ UNCHANGED appVars
        /\ UNCHANGED model
        /\ UNCHANGED <<dlVars, otherVars>>

EpochEnd == \E r \in 1..Len(runs) : EpochEndOf(r)

\* model.fit of run r rejects: train()'s catch runs and rethrows.
FitThrowsOf(r) ==
    /\ Fitting(r)
    /\ runs' = [runs EXCEPT ![r].status = "rejected"]
    /\ isTraining' = IsTrainingAfterCatch
    /\ gruResult' = GruThrown("train", ErrFit)
    /\ CallerCatch(runs[r].caller)
    /\ UNCHANGED <<model, trainingHistory, tfModels>>
    /\ UNCHANGED <<dlVars, otherVars>>

FitThrows == \E r \in 1..Len(runs) : FitThrowsOf(r)

\* The assignments of GRUModel.stopTraining.
StopTrainingCall ==
    /\ isTraining' = FALSE
    /\ tfModels' = FlagStop(tfModels, model)
    /\ gruResult' = GruReturned("stopTraining", model)
    /\ UNCHANGED <<model, trainingHistory, runs>>

StopTraining ==
    /\ StopTrainingCall
    /\ UNCHANGED <<dlVars, appVars, otherVars>>

\* predict, evaluate, forecast (through predict) and saveWeights share the
\* same guard; with a model they hand the call to it.
ModelCall(op) ==
    /\ gruResult' = IF NoModel THEN GruThrown(op, ErrModelNotTrained)
                    ELSE GruReturned(op, model)
    /\ UNCHANGED <<model, isTraining, trainingHistory, tfModels, runs>>

Predict == ModelCall("predict") /\ UNCHANGED <<dlVars, appVars, otherVars>>

Evaluate == ModelCall("evaluate") /\ UNCHANGED <<dlVars, appVars, otherVars>>

Forecast == ModelCall("forecast") /\ UNCHANGED <<dlVars, appVars, otherVars>>

SaveWeights == ModelCall("saveWeights") /\ UNCHANGED <<dlVars, appVars, otherVars>>

\* loadWeights: returns false when nothing is stored; otherwise it builds a
\* model and loads into it (a failing load is caught).
LoadWeights ==
    \E stored \in BOOLEAN :
        /\ IF stored
           THEN /\ Len(tfModels) < MaxModels
                /\ tfModels' = BuiltModels
                /\ model' = Len(tfModels) + 1
                /\ gruResult' = GruReturned("loadWeights", Len(tfModels) + 1)
           ELSE /\ gruResult' = GruReturned("loadWeights", 0)
                /\ UNCHANGED <<model, tfModels>>
        /\ UNCHANGED <<isTraining, trainingHistory, runs>>
        /\ UNCHANGED <<dlVars, appVars, otherVars>>

\* getModelInfo: null without a model.
GetModelInfo ==
    /\ gruResult' = GruReturned("getModelInfo", model)
    /\ UNCHANGED <<model, isTraining, trainingHistory, tfModels, runs>>
    /\ UNCHANGED <<dlVars, appVars, otherVars>>

\* The assignments of GRUModel.dispose.
GruDisposeCall ==
    /\ tfModels' = DisposeTf(tfModels, model)
    /\ model' = 0
    /\ isTraining' = FALSE
    /\ trainingHistory' = <<>>
    /\ gruResult' = GruReturned("dispose", 0)
    /\ UNCHANGED runs

GruDispose ==
    /\ GruDisposeCall
    /\ UNCHANGED <<dlVars, appVars, otherVars>>

\* new GRUModel()
GruInit ==
    /\ model = 0
    /\ isTraining = FALSE
    /\ trainingHistory = <<>>
    /\ tfModels = <<>>
    /\ runs = <<>>
    /\ gruResult = GruReturned("constructor", 0)

\* What the model may forecast: normalized values.
Predictions == {<<Rat(0), Frac(3, 2)>>}

(***************************************************************************)
(* StockPredictorApp (app.js), the application around the two singletons   *)
(* dataLoader and gruModel.  Its handlers are public methods: they are     *)
(* taken whether or not the button wired to them is enabled.  A handler    *)
(* runs to its first await in one step; what follows the await is a step   *)
(* of its own (FileRead for loadAndPrepareData, EpochEnd and FitThrows for *)
(* trainModel).  Handlers that only draw (showDataStats, the charts,       *)
(* downloadSampleData) are left out, and so is dispose, which nothing in   *)
(* the application calls.                                                  *)
(***************************************************************************)
\* Files a user selects: one line with the value 0 (every row is dropped) and
\* one line with the value 3.  A file without a data line ends like a read
\* that failed.
AppFiles ==
    {[headers |-> <<"Close">>, lines |-> l] : l \in {<<<<0>>>>, <<<<3>>>>}}

NoFile == [null |-> TRUE, csv |-> [headers |-> <<>>, lines |-> <<>>]]

NoDatasets == [null |-> TRUE]

\* Outcome of a handler: "rejected" by a guard before it did anything,
\* "failed" in its try block, "pending" at an await, or "done".
AppOutcome(op, status) == [op |-> op, status |-> status]

\* updateUI: it only ever enables the load, train and predict buttons and
\* disables the stop button.
UpdateUI(b, hasFile, loaded, trained) ==
    [loadDataBtn  |-> IF hasFile THEN FALSE ELSE b.loadDataBtn,
     trainBtn     |-> IF loaded THEN FALSE ELSE b.trainBtn,
     predictBtn   |-> IF trained THEN FALSE ELSE b.predictBtn,
     stopTrainBtn |-> IF trained THEN TRUE ELSE b.stopTrainBtn]

\* fileInput change / drop / paste: this.currentFile = the file, then
\* onFileSelected enables the load button and calls updateUI.
SelectFile ==
    \E csv \in AppFiles :
        /\ currentFile' = [null |-> FALSE, csv |-> csv]
        /\ buttons' = UpdateUI([buttons EXCEPT !.loadDataBtn = FALSE], TRUE,
                               isDataLoaded, isModelTrained)
        /\ appResult' = AppOutcome("onFileSelected", "done")
        /\ UNCHANGED <<isDataLoaded, isModelTrained, predictions, datasets, reading>>
        /\ UNCHANGED <<dlVars, gruVars, otherVars>>

\* loadAndPrepareData up to await dataLoader.loadCSV(this.currentFile).  A
\* second read of a file that is already being read adds nothing: starting it
\* has no other effect, and it can as well start when the first has finished.
LoadAndPrepareData ==
    /\ IF currentFile.null
       THEN /\ appResult' = AppOutcome("loadAndPrepareData", "rejected")
            /\ UNCHANGED <<reading, buttons>>
       ELSE /\ reading' = reading \cup {currentFile.csv}
            /\ buttons' = [buttons EXCEPT !.loadDataBtn = TRUE]
            /\ appResult' = AppOutcome("loadAndPrepareData", "pending")
    /\ UNCHANGED <<isDataLoaded, isModelTrained, currentFile, predictions, datasets>>
    /\ UNCHANGED <<dlVars, gruVars, otherVars>>

\* The table preprocessData leaves for the given rows and feature columns.
PreprocessParamsOf(rows, columns) ==
    LET features == [f \in 1..Len(columns) |-> Column(rows, columns[f])]
    IN  SetParams(ParamsAfterFeatures(normalizationParams, features, Len(features)),
                  "target", NormalizeArrayParams(Column(rows, targetColumn)))

\* The dataset preprocessData builds for the given rows and feature columns.
PreprocessDatasetOf(rows, columns) ==
    LET features == [f \in 1..Len(columns) |-> Column(rows, columns[f])]
    IN  Dataset(NormalizeFeatures(features),
                NormalizeArrayValues(Column(rows, targetColumn)),
                sequenceLength, forecastDays, trainTestSplit, columns)

\* catch of loadAndPrepareData
LoadFailed ==
    /\ isDataLoaded' = FALSE
    /\ buttons' = UpdateUI([buttons EXCEPT !.loadDataBtn = FALSE], ~currentFile.null,
                           FALSE, isModelTrained)
    /\ appResult' = AppOutcome("loadAndPrepareData", "failed")
    /\ UNCHANGED datasets

\* The FileReader finishes reading csv; loadAndPrepareData goes on with
\* parseCSV, preprocessData and getStats (never null after a preprocessData
\* that did not throw).
FileReadOf(csv) ==
    LET rows == ParsedRows(csv.headers, csv.lines, targetColumn)
        columns == ParsedFeatureColumns(csv.headers, targetColumn)
    IN  \E readerFails \in BOOLEAN, tfThrows \in BOOLEAN :
            /\ reading' = reading \ {csv}
            /\ IF readerFails \/ Len(csv.lines) < 1
               THEN \* reader.onerror, or parseCSV throws before it assigns
                    /\ LoadFailed
                    /\ UNCHANGED <<data, featureColumns, normalizationParams>>
               ELSE /\ data' = [null |-> FALSE, rows |-> rows]
                    /\ featureColumns' = columns
                    /\ IF Len(rows) = 0
                       THEN \* preprocessData throws 'No data loaded'
                            /\ LoadFailed
                            /\ UNCHANGED normalizationParams
                       ELSE /\ normalizationParams' = PreprocessParamsOf(rows, columns)
                            /\ IF HasEmptyTensor(PreprocessDatasetOf(rows, columns))
                                  /\ tfThrows
                               THEN LoadFailed
                               ELSE /\ datasets' = [null |-> FALSE]
                                    /\ isDataLoaded' = TRUE
                                    /\ buttons' =
                                          UpdateUI([buttons EXCEPT !.trainBtn = FALSE],
                                                   ~currentFile.null, TRUE,
                                                   isModelTrained)
                                    /\ appResult' =
                                          AppOutcome("loadAndPrepareData", "done")
            /\ UNCHANGED <<targetColumn, sequenceLength, forecastDays, trainTestSplit,
                           result>>
            /\ UNCHANGED <<isModelTrained, currentFile, predictions>>
            /\ UNCHANGED <<gruVars, otherVars>>

FileRead == \E csv \in reading : FileReadOf(csv)

\* !this.datasets
DatasetsMissing == datasets.null

\* trainModel up to await gruModel.train(...): the guard, buildModel, and
\* train() on the model just built, with the application's callbacks; at
\* most maxRuns calls get past the guard in a behaviour.
TrainModelCall(maxRuns) ==
    /\ IF DatasetsMissing
       THEN /\ appResult' = AppOutcome("trainModel", "rejected")
            /\ UNCHANGED <<gruVars, buttons>>
       ELSE /\ Len(runs) < maxRuns
            /\ buttons' = [buttons EXCEPT !.trainBtn = TRUE, !.stopTrainBtn = FALSE,
                                           !.predictBtn = TRUE]
            /\ tfModels' = BuiltModels
            /\ model' = Len(tfModels) + 1
            /\ isTraining' = TRUE
            /\ runs' = Append(runs, NewRun(Len(tfModels) + 1, "fitting", "app"))
            /\ gruResult' = GruPending("train", Len(tfModels) + 1)
            /\ appResult' = AppOutcome("trainModel", "pending")
            /\ UNCHANGED trainingHistory
    /\ UNCHANGED <<isDataLoaded, isModelTrained, currentFile, predictions, datasets,
                   reading>>
    /\ UNCHANGED <<dlVars, otherVars>>

TrainModel == TrainModelCall(MaxAppRuns)

\* stopTraining of the application
StopTrainingClick ==
    /\ StopTrainingCall
    /\ buttons' = [buttons EXCEPT !.trainBtn = FALSE, !.stopTrainBtn = TRUE]
    /\ appResult' = AppOutcome("stopTraining", "done")
    /\ UNCHANGED <<isDataLoaded, isModelTrained, currentFile, predictions, datasets,
                   reading>>
    /\ UNCHANGED <<dlVars, otherVars>>

NotTrained_Never == FALSE

\* !this.isModelTrained
NotTrained == ~isModelTrained

ErrPredict == "PredictError"                \* whatever model.predict throws

\* makePredictions: two guards, then getLatestWindow, gruModel.forecast and
\* denormalizeArray(..., 'target') in one try block.
MakePredictions ==
    \E out \in Predictions, tfThrows \in BOOLEAN :
        /\ IF NotTrained \/ NoData
           THEN /\ appResult' = AppOutcome("makePredictions", "rejected")
                /\ UNCHANGED <<gruResult, predictions, buttons>>
           ELSE IF LatestWindowMissingParams
           THEN \* getLatestWindow throws
                /\ appResult' = AppOutcome("makePredictions", "failed")
                /\ UNCHANGED <<gruResult, predictions>>
                /\ buttons' = [buttons EXCEPT !.predictBtn = FALSE]
           ELSE IF NoModel \/ tfThrows
           THEN /\ gruResult' = GruThrown("forecast", IF NoModel
                                                      THEN ErrModelNotTrained
                                                      ELSE ErrPredict)
                /\ appResult' = AppOutcome("makePredictions", "failed")
                /\ UNCHANGED predictions
                /\ buttons' = [buttons EXCEPT !.predictBtn = FALSE]
           ELSE IF ~HasParams(normalizationParams, "target")
           THEN \* denormalizeArray throws
                /\ gruResult' = GruReturned("forecast", model)
                /\ appResult' = AppOutcome("makePredictions", "failed")
                /\ UNCHANGED predictions
                /\ buttons' = [buttons EXCEPT !.predictBtn = FALSE]
           ELSE /\ gruResult' = GruReturned("forecast", model)
                /\ predictions' = DenormalizeValues(out, normalizationParams["target"])
                /\ appResult' = AppOutcome("makePredictions", "done")
                /\ buttons' = [buttons EXCEPT !.predictBtn = FALSE]
        /\ UNCHANGED <<dlVars, otherVars>>
        /\ UNCHANGED <<model, isTraining, trainingHistory, tfModels, runs>>
        /\ UNCHANGED <<isDataLoaded, isModelTrained, currentFile, datasets, reading>>

ButtonIds == {"loadDataBtn", "trainBtn", "stopTrainBtn", "predictBtn"}

\* new StockPredictorApp(): the fields; its updateUI enables no button.
AppNew ==
    /\ isDataLoaded = FALSE
    /\ isModelTrained = FALSE
    /\ currentFile = NoFile
    /\ predictions = <<>>
    /\ datasets = NoDatasets
    /\ reading = {}
    /\ appResult = AppOutcome("constructor", "done")

\* new StockPredictorApp() on a page whose four buttons start disabled
AppInit ==
    /\ AppNew
    /\ buttons = [b \in ButtonIds |-> TRUE]

(***************************************************************************)
(* StockPredictorApp, the variant that owns its DataLoader and its         *)
(* GRUModel (part_001, app.js).  The loader and the model class it imports *)
(* are not among the sources: their calls return or throw, their promises  *)
(* resolve or reject, as the environment chooses, and what dispose leaves  *)
(* of normalizedData is the loader's choice.                               *)
(***************************************************************************)
InstBusy_Never == FALSE

\* if (this.isTraining) return;
InstBusy == instIsTraining

\* finally { this.isTraining = false; ... }
IsTrainingAfterFinally == FALSE

\* A trainModel call: where it is ("returned" by the first guard, "noData"
\* by the second, awaiting "train", "evaluate" or "visualize", "done" or
\* "failed"), whether it called prepareDatasets, and the model it created.
TrainCallRecord(status, prepared, m) ==
    [status |-> status, prepared |-> prepared, model |-> m]

AwaitPoints == {"train", "evaluate", "visualize"}

InProgress(c) == trainCalls[c].status \in AwaitPoints

ModelsCreated == Cardinality({c \in 1..Len(trainCalls) : trainCalls[c].model # 0})

\* trainModel up to await this.model.train
InstTrainModel ==
    \E prepareThrows \in BOOLEAN, constructorThrows \in BOOLEAN :
        /\ Len(trainCalls) < MaxTrainCalls
        /\ IF InstBusy
           THEN /\ trainCalls' = Append(trainCalls, TrainCallRecord("returned", FALSE, 0))
                /\ UNCHANGED <<instIsTraining, instModel>>
           ELSE IF ~normalizedData
           THEN /\ trainCalls' = Append(trainCalls, TrainCallRecord("noData", FALSE, 0))
                /\ UNCHANGED <<instIsTraining, instModel>>
           ELSE IF prepareThrows \/ constructorThrows
           THEN \* catch, then finally
                /\ trainCalls' = Append(trainCalls, TrainCallRecord("failed", TRUE, 0))
                /\ instIsTraining' = IsTrainingAfterFinally
                /\ UNCHANGED instModel
           ELSE /\ trainCalls' = Append(trainCalls,
                                        TrainCallRecord("train", TRUE, ModelsCreated + 1))
                /\ instIsTraining' = TRUE
                /\ instModel' = ModelsCreated + 1
        /\ UNCHANGED <<normalizedData, fileLoads>>
        /\ UNCHANGED <<dlVars, gruVars, appVars, notesVars>>

\* The promise call c awaits settles.  After train: this.model.evaluate,
\* which throws when this.model was set to null meanwhile.  After evaluate:
\* visualizePredictions, which catches whatever it meets.  After that the
\* call is done.  A rejection goes to the catch; every way out passes the
\* finally.
AwaitSettlesOf(c) ==
    \E rejects \in BOOLEAN :
        LET call == trainCalls[c]
            next == IF call.status = "visualize" THEN "done"
                    ELSE IF rejects THEN "failed"
                    ELSE IF call.status = "train"
                    THEN IF instModel = 0 THEN "failed" ELSE "evaluate"
                    ELSE "visualize"
        IN  /\ InProgress(c)
            /\ trainCalls' = [trainCalls EXCEPT ![c].status = next]
            /\ instIsTraining' = IF next \in AwaitPoints THEN instIsTraining
                                 ELSE IsTrainingAfterFinally
            /\ UNCHANGED <<instModel, normalizedData, fileLoads>>
            /\ UNCHANGED <<dlVars, gruVars, appVars, notesVars>>

AwaitSettles == \E c \in 1..Len(trainCalls) : AwaitSettlesOf(c)

\* handleFileSelect up to await this.dataLoader.loadCSV(file)
HandleFileSelect ==
    \E cleared \in BOOLEAN :
        /\ fileLoads < MaxFileLoads
        /\ instModel' = 0
        /\ normalizedData' = (normalizedData /\ ~cleared)
        /\ fileLoads' = fileLoads + 1
        /\ UNCHANGED <<instIsTraining, trainCalls>>
        /\ UNCHANGED <<dlVars, gruVars, appVars, notesVars>>

\* loadCSV settles: calculateReturns and normalizeData, or the catch
FileLoaded ==
    \E ok \in BOOLEAN :
        /\ fileLoads > 0
        /\ fileLoads' = fileLoads - 1
        /\ normalizedData' = (ok \/ normalizedData)
        /\ UNCHANGED <<instIsTraining, instModel, trainCalls>>
        /\ UNCHANGED <<dlVars, gruVars, appVars, notesVars>>

\* resetApp
ResetApp ==
    \E cleared \in BOOLEAN :
        /\ instModel' = 0
        /\ normalizedData' = (normalizedData /\ ~cleared)
        /\ UNCHANGED <<instIsTraining, trainCalls, fileLoads>>
        /\ UNCHANGED <<dlVars, gruVars, appVars, notesVars>>

\* new StockPredictorApp()
InstInit ==
    /\ instIsTraining = FALSE
    /\ instModel = 0
    /\ normalizedData = FALSE
    /\ trainCalls = <<>>
    /\ fileLoads = 0

(***************************************************************************)
(* The notes function (index.js): handler and the module's driver.  The    *)
(* database is the environment: each awaited step resolves or rejects as   *)
(* it chooses, and what is thrown is an Error with a message.              *)
(***************************************************************************)
StatusOk == 200
StatusBadRequest == 400
StatusError == 500

NoteActions == {"save", "list", "analyze"}

\* event.queryStringParameters?.action: "absent" when there is none, else
\* the string, which may be empty.
QueryActions == {"absent", "", "save", "list", "analyze", "other"}

\* event.body: none, text that is not JSON, the JSON text null, or the JSON
\* text of an object, with its action.
Bodies ==
    {[kind |-> k, action |-> "absent"] : k \in {"none", "invalid", "null"}}
        \cup {[kind |-> "object", action |-> a] :
                 a \in {"absent", "save", "list", "analyze", "other"}}

Events == [query : QueryActions, body : Bodies]

Truthy(str) == str \notin {"absent", ""}

ActionOf_BodyFirst(event) ==
    IF event.body.action # "absent" THEN event.body.action ELSE event.query

\* event.queryStringParameters?.action || body.action, for a body that is
\* an object ({} when the event has none)
ActionOf(event) ==
    IF Truthy(event.query) THEN event.query ELSE event.body.action

ErrUnknownAction == "UnknownAction"         \* 'Неизвестное действие'
ErrDriver == "DriverError"                  \* new ydb.Driver or driver.ready()
ErrSession == "SessionError"                \* createSession or session.close()
ErrSyntax == "SyntaxError"                  \* JSON.parse
ErrNullRead == "NullReadError"              \* a property of null is read (TypeError)
ErrQuery == "QueryError"                    \* saveNote, listNotes or analyzeNotes

NoResponse == [statusCode |-> 0, body |-> "none"]

Ok(body) == [statusCode |-> StatusOk, body |-> body]

BadRequest == [statusCode |-> StatusBadRequest, body |-> ErrUnknownAction]

\* catch (err): statusCode 500, body { error: err.message }
ErrorResponse(message) == [statusCode |-> StatusError, body |-> message]

\* An invocation: its event, where it is ("ready" awaits driver.ready(),
\* "table" createTable, "action" the action, "done" returned), the step
\* that threw if one did, and what it returned.
Invocation(event, pc, threw, response) ==
    [event |-> event, pc |-> pc, threw |-> threw, response |-> response]

Responded(inv, threw, response) ==
    [inv EXCEPT !.pc = "done", !.threw = threw, !.response = response]

\* handler up to the first await: initDriver
Invoke ==
    \E event \in Events, constructorThrows \in BOOLEAN :
        /\ Len(invocations) < MaxInvocations
        /\ IF driver = "none"
           THEN IF constructorThrows
                THEN /\ invocations' =
                          Append(invocations,
                                 Invocation(event, "done", "driver",
                                            ErrorResponse(ErrDriver)))
                     /\ UNCHANGED driver
                ELSE /\ driver' = "created"
                     /\ invocations' =
                          Append(invocations, Invocation(event, "ready", "none",
                                                         NoResponse))
           ELSE /\ invocations' =
                     Append(invocations, Invocation(event, "table", "none",
                                                    NoResponse))
                /\ UNCHANGED driver
        /\ UNCHANGED notes
        /\ UNCHANGED <<dlVars, gruVars, appVars, instVars>>

\* driver.ready() settles
ReadySettlesOf(i) ==
    \E rejects \in BOOLEAN :
        /\ invocations[i].pc = "ready"
        /\ invocations' =
              [invocations EXCEPT ![i] =
                  IF rejects THEN Responded(@, "driver", ErrorResponse(ErrDriver))
                  ELSE [@ EXCEPT !.pc = "table"]]
        /\ UNCHANGED <<driver, notes>>
        /\ UNCHANGED <<dlVars, gruVars, appVars, instVars>>

ReadySettles == \E i \in 1..Len(invocations) : ReadySettlesOf(i)

\* What the handler does between createTable and the action's first await.
Dispatch(inv) ==
    LET event == inv.event
        action == ActionOf(event)
    IN  IF event.body.kind = "invalid"
        THEN Responded(inv, "parse", ErrorResponse(ErrSyntax))
        ELSE IF event.body.kind = "null" /\ ~Truthy(event.query)
        THEN \* body.action of null
             Responded(inv, "action", ErrorResponse(ErrNullRead))
        ELSE IF action = "save" /\ event.body.kind = "null"
        THEN \* body.note of null
             Responded(inv, "action", ErrorResponse(ErrNullRead))
        ELSE IF action \in NoteActions
        THEN [inv EXCEPT !.pc = "action"]
        ELSE Responded(inv, "none", BadRequest)

\* createTable settles: a failed CREATE TABLE is logged and swallowed, a
\* failed createSession or session.close() is thrown.
TableSettlesOf(i) ==
    \E rejects \in BOOLEAN :
        /\ invocations[i].pc = "table"
        /\ invocations' =
              [invocations EXCEPT ![i] =
                  IF rejects THEN Responded(@, "table", ErrorResponse(ErrSession))
                  ELSE Dispatch(@)]
        /\ UNCHANGED <<driver, notes>>
        /\ UNCHANGED <<dlVars, gruVars, appVars, instVars>>

TableSettles == \E i \in 1..Len(invocations) : TableSettlesOf(i)

\* saveNote or listNotes settles; analyze goes on with analyzeNotes(notes,
\* body.query), which reads a property of null when the body is null.
ActionSettlesOf(i) ==
    \E rejects \in BOOLEAN, id \in NoteIds :
        LET inv == invocations[i]
            action == ActionOf(inv.event)
        IN  /\ inv.pc = "action"
            /\ IF rejects
               THEN /\ invocations' =
                         [invocations EXCEPT ![i] =
                             Responded(@, "action", ErrorResponse(ErrQuery))]
                    /\ UNCHANGED notes
               ELSE IF action = "analyze" /\ inv.event.body.kind = "null"
               THEN /\ invocations' =
                         [invocations EXCEPT ![i] =
                             Responded(@, "action", ErrorResponse(ErrNullRead))]
                    /\ UNCHANGED notes
               ELSE /\ invocations' =
                         [invocations EXCEPT ![i] =
                             Responded(@, "none",
                                       Ok(CASE action = "save" -> "success"
                                            [] action = "list" -> "notes"
                                            [] OTHER -> "result"))]
                    /\ notes' = IF action = "save" THEN notes \cup {id} ELSE notes
            /\ UNCHANGED driver
            /\ UNCHANGED <<dlVars, gruVars, appVars, instVars>>

ActionSettles == \E i \in 1..Len(invocations) : ActionSettlesOf(i)

\* The runtime hands the responses of the invocations that returned to their
\* callers; the module, and with it the driver, stays loaded for the next.
Deliver ==
    /\ \E i \in 1..Len(invocations) : invocations[i].pc = "done"
    /\ invocations' = SelectSeq(invocations, LAMBDA inv : inv.pc # "done")
    /\ UNCHANGED <<driver, notes>>
    /\ UNCHANGED <<dlVars, gruVars, appVars, instVars>>

\* the module as loaded: let driver;
NotesInit ==
    /\ driver = "none"
    /\ notes = {}
    /\ invocations = <<>>

(***************************************************************************)
(* The session: one DataLoader, its methods called in any order.           *)
(***************************************************************************)
\* sequenceLength and forecastDays are public fields that only the constructor
\* assigns (60 and 5).  A session runs with those defaults or with a smaller
\* lookback, so that the files of the bounds are long enough to be windowed.
SessionConfigs ==
    ((1..MaxSessionLookback) \X {1})
        \cup {<<DefaultSequenceLength, DefaultForecastDays>>}

\* loadCSV: the FileReader hands the file's text to parseCSV.
LoadCSV ==
    \E csv \in PatternFiles(MaxRows) :
        /\ ParseCSV(csv)
        /\ UNCHANGED <<targetColumn, sequenceLength, forecastDays, trainTestSplit,
                       normalizationParams>>
        /\ UNCHANGED <<gruVars, appVars, otherVars>>

Denormalize ==
    \E normalizedArray \in Predictions, name \in ParamNames :
        DenormalizeArray(normalizedArray, name)

Init ==
    /\ data = [null |-> TRUE, rows |-> <<>>]
    /\ featureColumns = <<>>
    /\ targetColumn = "Close"
    /\ \E cfg \in SessionConfigs :
            /\ sequenceLength = cfg[1]
            /\ forecastDays = cfg[2]
    /\ trainTestSplit = DefaultTrainTestSplit
    /\ normalizationParams = NoParams
    /\ result = Returned("constructor", <<>>, <<>>)
    /\ GruInit
    /\ AppInit
    /\ InstInit
    /\ NotesInit

Next ==
    \/ LoadCSV
    \/ PreprocessData
    \/ GetLatestWindow
    \/ GetStats
    \/ Denormalize
    \/ Dispose

Spec == Init /\ [][Next]_vars

(***************************************************************************)
(* Windowing a loaded series: the loader right after parseCSV of a file,   *)
(* with every lookback, horizon and split ratio of the bounds, and         *)
(* preprocessData applied to it.                                           *)
(***************************************************************************)
Ratios == {<<4, 5>>, <<1, 2>>, <<1, 3>>}

InitWindows ==
    \E csv \in PatternFiles(MaxSeriesLen) :
        /\ Len(csv.lines) >= 1
        /\ targetColumn = "Close"
        /\ featureColumns = ParsedFeatureColumns(csv.headers, targetColumn)
        /\ data = [null |-> FALSE,
                   rows |-> ParsedRows(csv.headers, csv.lines, targetColumn)]
        /\ sequenceLength \in 1..MaxLookback
        /\ forecastDays \in 1..MaxHorizon
        /\ trainTestSplit \in Ratios
        /\ normalizationParams = NoParams
        /\ result = Returned("parseCSV", <<csv>>, <<>>)
        /\ GruInit
        /\ AppInit
        /\ InstInit
        /\ NotesInit

NextWindows == PreprocessData

SpecWindows == InitWindows /\ [][NextWindows]_vars

(***************************************************************************)
(* Configurations: sequenceLength, forecastDays and trainTestSplit are     *)
(* public fields of the loader, checked nowhere; a caller that assigned    *)
(* them a zero lookback or horizon, or a split ratio of 0, 1 or 3/2, then  *)
(* calls preprocessData on a loaded file.                                  *)
(***************************************************************************)
ConfigRatios == Ratios \cup {<<0, 1>>, <<1, 1>>, <<3, 2>>}

InitConfig ==
    \E csv \in PatternFiles(MaxSeriesLen) :
        /\ Len(csv.lines) >= 1
        /\ targetColumn = "Close"
        /\ featureColumns = ParsedFeatureColumns(csv.headers, targetColumn)
        /\ data = [null |-> FALSE,
                   rows |-> ParsedRows(csv.headers, csv.lines, targetColumn)]
        /\ sequenceLength \in 0..MaxLookback
        /\ forecastDays \in 0..MaxHorizon
        /\ trainTestSplit \in ConfigRatios
        /\ normalizationParams = NoParams
        /\ result = Returned("parseCSV", <<csv>>, <<>>)
        /\ GruInit
        /\ AppInit
        /\ InstInit
        /\ NotesInit

NextConfig == PreprocessData

SpecConfig == InitConfig /\ [][NextConfig]_vars

(***************************************************************************)
(* Normalizing arrays: normalizeArray and denormalizeArray called on a     *)
(* fresh loader with every array of the bounds.                            *)
(***************************************************************************)
ArrayValues == {-2, 0, 4}

Arrays == UNION {[1..n -> ArrayValues] : n \in 1..MaxArrayLen}

ArrayNames == {"target", "feature_0"}

NormalizeArray(array, name) ==
    /\ normalizationParams' = SetParams(normalizationParams, name,
                                        NormalizeArrayParams(array))
    /\ result' = Returned("normalizeArray", <<array, name>>,
                          NormalizeArrayValues(array))
    /\ UNCHANGED <<data, featureColumns, targetColumn, sequenceLength,
                   forecastDays, trainTestSplit>>
    /\ UNCHANGED <<gruVars, appVars, otherVars>>

Normalize ==
    \E array \in Arrays, name \in ArrayNames : NormalizeArray(array, name)

\* denormalizeArray called with what the last normalizeArray returned.
DenormalizeNormalized ==
    /\ result.op = "normalizeArray"
    /\ \E name \in ArrayNames : DenormalizeArray(result.value, name)

\* new DataLoader()
LoaderNew ==
    /\ data = [null |-> TRUE, rows |-> <<>>]
    /\ featureColumns = <<>>
    /\ targetColumn = "Close"
    /\ sequenceLength = DefaultSequenceLength
    /\ forecastDays = DefaultForecastDays
    /\ trainTestSplit = DefaultTrainTestSplit
    /\ normalizationParams = NoParams
    /\ result = Returned("constructor", <<>>, <<>>)

InitNorm ==
    /\ LoaderNew
    /\ GruInit
    /\ AppInit
    /\ InstInit
    /\ NotesInit

NextNorm ==
    \/ Normalize
    \/ DenormalizeNormalized

SpecNorm == InitNorm /\ [][NextNorm]_vars

(***************************************************************************)
(* The GRUModel singleton, its methods called in any order while the       *)
(* library runs the fits.                                                  *)
(***************************************************************************)
InitGru == InitNorm

NextGru ==
    \/ BuildModel
    \/ Train
    \/ EpochEnd
    \/ FitThrows
    \/ StopTraining
    \/ Predict
    \/ Evaluate
    \/ Forecast
    \/ SaveWeights
    \/ LoadWeights
    \/ GetModelInfo
    \/ GruDispose

SpecGru == InitGru /\ [][NextGru]_vars

(***************************************************************************)
(* Training runs: the methods of GRUModel that act on a run or replace the *)
(* model, and the library running the fits.  The event loop keeps running  *)
(* the library: a fit that can finish an epoch or reject eventually does.  *)
(***************************************************************************)
NextGruRuns ==
    \/ BuildModel
    \/ Train
    \/ EpochEnd
    \/ FitThrows
    \/ StopTraining
    \/ GruDispose

FitProgress == EpochEnd \/ FitThrows

SpecGruRuns == InitGru /\ [][NextGruRuns]_vars

SpecGruFair == SpecGruRuns /\ WF_vars(FitProgress)

(***************************************************************************)
(* The application: its handlers in any order, the FileReader and the      *)
(* library's fits running in between.                                      *)
(***************************************************************************)
InitApp == InitNorm

NextApp ==
    \/ SelectFile
    \/ LoadAndPrepareData
    \/ FileRead
    \/ TrainModel
    \/ EpochEnd
    \/ FitThrows
    \/ StopTrainingClick
    \/ MakePredictions

SpecApp == InitApp /\ [][NextApp]_vars

(***************************************************************************)
(* The page: the application driven by what a user can do.  A button's     *)
(* click handler runs only while the button is enabled; files can be       *)
(* chosen, dropped or pasted at any time.  The page's markup is not among  *)
(* the sources, so the buttons start enabled or disabled in any way.       *)
(***************************************************************************)
ClickLoad == ~buttons.loadDataBtn /\ LoadAndPrepareData

ClickTrain == ~buttons.trainBtn /\ TrainModelCall(MaxPageRuns)

ClickStop == ~buttons.stopTrainBtn /\ StopTrainingClick

ClickPredict == ~buttons.predictBtn /\ MakePredictions

InitPage ==
    /\ LoaderNew
    /\ GruInit
    /\ AppNew
    /\ buttons \in [ButtonIds -> BOOLEAN]
    /\ InstInit
    /\ NotesInit

NextPage ==
    \/ SelectFile
    \/ ClickLoad
    \/ FileRead
    \/ ClickTrain
    \/ EpochEnd
    \/ FitThrows
    \/ ClickStop
    \/ ClickPredict

SpecPage == InitPage /\ [][NextPage]_vars

(***************************************************************************)
(* The instance variant of the application: its handlers and the promises  *)
(* its trainModel calls await.                                             *)
(***************************************************************************)
InitInst == InitNorm

NextInst ==
    \/ HandleFileSelect
    \/ FileLoaded
    \/ InstTrainModel
    \/ AwaitSettles
    \/ ResetApp

SpecInst == InitInst /\ [][NextInst]_vars

(***************************************************************************)
(* The notes function: invocations of handler and the steps they await.    *)
(***************************************************************************)
InitNotes == InitNorm

NextNotes ==
    \/ Invoke
    \/ ReadySettles
    \/ TableSettles
    \/ ActionSettles
    \/ Deliver

SpecNotes == InitNotes /\ [][NextNotes]_vars

(***************************************************************************)
(* Properties of the windowed dataset (SpecWindows).                       *)
(***************************************************************************)
PreprocessReturned == result.op = "preprocessData" /\ result.status = "ok"

SeriesLen == Len(data.rows)

\* max(0, N - L - H + 1)
ExpectedCount ==
    IF SeriesLen - sequenceLength - forecastDays + 1 > 0
    THEN SeriesLen - sequenceLength - forecastDays + 1
    ELSE 0

AllWindows == result.value.X_train \o result.value.X_test

AllTargets == result.value.y_train \o result.value.y_test

\* (raw - min) / range with a recorded table entry.
Scaled(raw, entry) == Frac(raw - entry.min, entry.range)

\* The normalized value of feature f (1-based) at 0-based row r.
ScaledFeature(f, r) ==
    Scaled(data.rows[r + 1][featureColumns[f]], normalizationParams[FeatureName(f - 1)])

ScaledTarget(r) ==
    Scaled(data.rows[r + 1][targetColumn], normalizationParams["target"])

\* The window and the target vector that start at 0-based offset i.
ExpectedWindow(i) ==
    [j \in 1..sequenceLength |->
        [f \in 1..Len(featureColumns) |-> ScaledFeature(f, i + j - 1)]]

ExpectedTarget(i) ==
    [h \in 1..forecastDays |-> ScaledTarget(i + sequenceLength + h - 1)]

\* C1: a series of N rows windowed with lookback L >= 1 and horizon H >= 1
\* yields exactly max(0, N-L-H+1) windows and as many targets, every window
\* has exactly L time-steps and every target vector exactly H values.
C1_WindowCount ==
    (PreprocessReturned /\ sequenceLength >= 1 /\ forecastDays >= 1) =>
        /\ Len(AllWindows) = ExpectedCount
        /\ Len(AllTargets) = ExpectedCount
        /\ Len(result.value.X_train) = Len(result.value.y_train)
        /\ Len(result.value.X_test) = Len(result.value.y_test)
        /\ \A w \in 1..Len(AllWindows) : Len(AllWindows[w]) = sequenceLength
        /\ \A w \in 1..Len(AllTargets) : Len(AllTargets[w]) = forecastDays

C1_Witness ==
    /\ PreprocessReturned
    /\ SeriesLen = 10 /\ sequenceLength = 3 /\ forecastDays = 2
    /\ Len(AllWindows) = 6
    /\ Len(AllTargets) = 6

\* C2: window i holds at time-step j the normalized values of row i+j, one per
\* feature column in feature-list order, and target i holds the normalized
\* target values of rows i+L .. i+L+H-1 in order.
C2_WindowContents ==
    PreprocessReturned =>
        /\ \A w \in 1..Len(AllWindows) : AllWindows[w] = ExpectedWindow(w - 1)
        /\ \A w \in 1..Len(AllTargets) : AllTargets[w] = ExpectedTarget(w - 1)

\* The series 1..10 with L = 3, H = 2: window 0 is rows 1,2,3 with target 4,5
\* and window 5 is rows 6,7,8 with target 9,10, each scaled by (x - 1) / 9.
C2_Witness ==
    /\ PreprocessReturned
    /\ featureColumns = <<"Close">>
    /\ Column(data.rows, "Close") = <<1, 2, 3, 4, 5, 6, 7, 8, 9, 10>>
    /\ sequenceLength = 3 /\ forecastDays = 2
    /\ Len(AllWindows) = 6
    /\ AllWindows[1] = << <<Frac(0, 9)>>, <<Frac(1, 9)>>, <<Frac(2, 9)>> >>
    /\ AllTargets[1] = <<Frac(3, 9), Frac(4, 9)>>
    /\ AllWindows[6] = << <<Frac(5, 9)>>, <<Frac(6, 9)>>, <<Frac(7, 9)>> >>
    /\ AllTargets[6] = <<Frac(8, 9), Frac(9, 9)>>

\* floor(count * ratio): the k with k * den <= count * num < (k + 1) * den.
IsFloorOfProduct(k, count, ratio) ==
    /\ k * ratio[2] <= count * ratio[1]
    /\ count * ratio[1] < (k + 1) * ratio[2]

\* C5: the training set is exactly pairs [0, floor(count*r)) and the test set
\* exactly pairs [floor(count*r), count), in original order, windows and
\* targets cut at the same index.
C5_ChronologicalSplit ==
    PreprocessReturned =>
        LET ds == result.value
            k == Len(ds.X_train)
        IN  /\ IsFloorOfProduct(k, ExpectedCount, trainTestSplit)
            /\ Len(ds.y_train) = k
            /\ Len(ds.X_test) = ExpectedCount - k
            /\ Len(ds.y_test) = ExpectedCount - k
            /\ \A w \in 1..k :
                    /\ ds.X_train[w] = ExpectedWindow(w - 1)
                    /\ ds.y_train[w] = ExpectedTarget(w - 1)
            /\ \A w \in 1..(ExpectedCount - k) :
                    /\ ds.X_test[w] = ExpectedWindow(k + w - 1)
                    /\ ds.y_test[w] = ExpectedTarget(k + w - 1)

C5_Witness ==
    /\ PreprocessReturned
    /\ trainTestSplit = <<4, 5>>
    /\ ExpectedCount = 6
    /\ Len(result.value.X_train) = 4
    /\ Len(result.value.X_test) = 2
    /\ result.value.X_test[1] = ExpectedWindow(4)
    /\ result.value.X_test[1] # result.value.X_train[4]

(***************************************************************************)
(* Properties of normalizeArray and denormalizeArray (SpecNorm).           *)
(***************************************************************************)
AsRationals(array) == [k \in 1..Len(array) |-> Rat(array[k])]

IsConstant(array) == \A k \in 1..Len(array) : array[k] = array[1]

IsMinOf(m, array) ==
    /\ \E k \in 1..Len(array) : array[k] = m
    /\ \A k \in 1..Len(array) : m <= array[k]

IsMaxOf(m, array) ==
    /\ \E k \in 1..Len(array) : array[k] = m
    /\ \A k \in 1..Len(array) : m >= array[k]

DenormalizeReturned == result.op = "denormalizeArray" /\ result.status = "ok"

\* The arrays whose normalization under the name of the last denormalizeArray
\* call left the current table entry and returned that call's input.
RoundTripSources ==
    {array \in Arrays :
        /\ Len(array) = Len(result.args[1])
        /\ normalizationParams[result.args[2]].range =
                (IF IsConstant(array) THEN 1 ELSE SeqMax(array) - SeqMin(array))
        /\ normalizationParams[result.args[2]].min = SeqMin(array)
        /\ \A k \in 1..Len(array) :
                result.args[1][k] =
                    Frac(array[k] - SeqMin(array),
                         normalizationParams[result.args[2]].range)}

\* C3: denormalizeArray(normalizeArray(column, name), name) returns the
\* column, value by value, also for a constant column.
C3_RoundTrip ==
    DenormalizeReturned =>
        \A array \in RoundTripSources : result.value = AsRationals(array)

C3_Witness ==
    /\ DenormalizeReturned
    /\ \E array \in RoundTripSources :
            /\ ~IsConstant(array)
            /\ \E k \in 1..Len(array) : result.args[1][k] \notin {Rat(0), Rat(1)}
            /\ result.value = AsRationals(array)

\* C4: for a constant column normalizeArray records range 1 and returns 0 for
\* every value, and denormalizeArray of those zeros returns the constant; for
\* a non-constant column the recorded range is max - min.
C4_ConstantColumn ==
    /\ result.op = "normalizeArray" =>
        LET array == result.args[1]
            entry == normalizationParams[result.args[2]]
        IN  /\ IsMinOf(entry.min, array)
            /\ IsMaxOf(entry.max, array)
            /\ IsConstant(array) =>
                    /\ entry.range = 1
                    /\ \A k \in 1..Len(array) : result.value[k] = Rat(0)
            /\ ~IsConstant(array) => entry.range = entry.max - entry.min
    /\ DenormalizeReturned =>
        LET entry == normalizationParams[result.args[2]]
        IN  (/\ entry.min = entry.max
             /\ \A k \in 1..Len(result.args[1]) : result.args[1][k] = Rat(0))
            => \A k \in 1..Len(result.value) : result.value[k] = Rat(entry.min)

C4_Witness ==
    /\ DenormalizeReturned
    /\ Len(result.args[1]) = MaxArrayLen
    /\ normalizationParams[result.args[2]] = [min |-> 4, max |-> 4, range |-> 1]
    /\ \A k \in 1..Len(result.args[1]) : result.args[1][k] = Rat(0)
    /\ \A k \in 1..Len(result.value) : result.value[k] = Rat(4)

(***************************************************************************)
(* Properties of a session (Spec).                                         *)
(***************************************************************************)
\* C6: preprocessData on a loaded series too short for one window
\* (0 < N < lookback + horizon) fails with an InsufficientData error and
\* returns no dataset.
C6_InsufficientData ==
    (/\ result.op = "preprocessData"
     /\ ~NoData
     /\ SeriesLen < sequenceLength + forecastDays)
    => (result.status = "error" /\ result.error = ErrInsufficientData)

LatestWindowReturned == result.op = "getLatestWindow" /\ result.status = "ok"

\* The value getLatestWindow must hold at time-step k (0-based) for feature f
\* when the series has at least sequenceLength rows: row N - L + k, scaled by
\* the entry recorded for that feature.
LatestScaled(table, f, k) ==
    Scaled(data.rows[SeriesLen - sequenceLength + k + 1][featureColumns[f]],
           table[FeatureName(f - 1)])

\* C7: a getLatestWindow call leaves every entry of the normalization table
\* as it was, and each value it returns is (raw - min) / range with the entry
\* stored before the call.  Only getLatestWindow sets result.op to its name.
C7_LatestWindowKeepsParams ==
    [][result'.op = "getLatestWindow" =>
        /\ normalizationParams' = normalizationParams
        /\ (result'.status = "ok" /\ SeriesLen >= sequenceLength) =>
                \A k \in 0..(sequenceLength - 1), f \in 1..Len(featureColumns) :
                    result'.value[1][k + 1][f] = LatestScaled(normalizationParams, f, k)
      ]_vars

\* A window returned for a series whose last rows exceed the recorded max: a
\* value above 1 in it, the recorded max still below the raw value.
C7_Witness ==
    /\ LatestWindowReturned
    /\ SeriesLen >= sequenceLength
    /\ \E k \in 1..sequenceLength, f \in 1..Len(featureColumns) :
            /\ RatLess(Rat(1), result.value[1][k][f])
            /\ normalizationParams[FeatureName(f - 1)].max
                    < data.rows[SeriesLen - sequenceLength + k][featureColumns[f]]

\* C8: getLatestWindow returns exactly one window of exactly lookback
\* time-steps holding the last lookback rows in order, each value scaled by
\* its feature's recorded entry, and a series of fewer than lookback rows is
\* rejected instead of yielding a shorter or padded window.
C8_LatestWindowContents ==
    (result.op = "getLatestWindow" /\ ~NoData) =>
        IF SeriesLen < sequenceLength
        THEN result.status = "error"
        ELSE result.status = "ok" =>
                /\ Len(result.value) = 1
                /\ Len(result.value[1]) = sequenceLength
                /\ \A k \in 0..(sequenceLength - 1), f \in 1..Len(featureColumns) :
                        result.value[1][k + 1][f] = LatestScaled(normalizationParams, f, k)

\* C9: denormalizeArray(values, name) fails with parameter-not-found and
\* returns nothing when no entry is recorded under name; otherwise it returns
\* value * range + min for each value.
C9_DenormalizeGuard ==
    result.op = "denormalizeArray" =>
        LET values == result.args[1]
            name == result.args[2]
        IN  IF name \notin DOMAIN normalizationParams
            THEN /\ result.status = "error"
                 /\ result.error = ErrParamsNotFound
                 /\ result.value = <<>>
            ELSE /\ result.status = "ok"
                 /\ Len(result.value) = Len(values)
                 /\ \A k \in 1..Len(values) :
                        \* value = (n * range + min * d) / d, in lowest terms
                        /\ result.value[k][2] > 0
                        /\ result.value[k][1] * values[k][2] =
                             (values[k][1] * normalizationParams[name].range
                                + normalizationParams[name].min * values[k][2])
                             * result.value[k][2]
                        /\ GCD(Abs(result.value[k][1]), result.value[k][2]) = 1

\* denormalizeArray rejected after dispose cleared the table.
C9_Witness ==
    /\ result.op = "denormalizeArray"
    /\ result.args[2] = "target"
    /\ result.status = "error"
    /\ result.error = ErrParamsNotFound
    /\ data.null
    /\ normalizationParams = NoParams

\* C10: getLatestWindow on loaded data with a feature column that has no
\* recorded entry fails with the ParameterNotFound error.
C10_LatestWindowParamsNotFound ==
    (/\ result.op = "getLatestWindow"
     /\ ~NoData
     /\ \E f \in 1..Len(featureColumns) :
            FeatureName(f - 1) \notin DOMAIN normalizationParams)
    => (result.status = "error" /\ result.error = ErrParamsNotFound)
(***************************************************************************)
(* Calls made while no rows are loaded (Spec).                             *)
(***************************************************************************)
BuilderOps == {"preprocessData", "getLatestWindow", "getStats", "denormalizeArray"}

\* C11: whenever preprocessData, getLatestWindow, getStats or denormalizeArray
\* was called while the row sequence was null or empty, the call failed with
\* the no-data-loaded error.
C11_NoDataLoaded ==
    (result.op \in BuilderOps /\ NoData)
        => (result.status = "error" /\ result.error = ErrNoData)

(***************************************************************************)
(* Invalid configurations (SpecConfig).                                    *)
(***************************************************************************)
ErrInvalidConfiguration == "InvalidConfiguration"

InvalidConfiguration ==
    \/ sequenceLength <= 0
    \/ forecastDays <= 0
    \/ trainTestSplit[1] <= 0
    \/ trainTestSplit[1] >= trainTestSplit[2]

\* C12: preprocessData called with a non-positive lookback or horizon, or with
\* a split ratio outside the open interval (0,1), failed with the
\* invalid-configuration error and produced no dataset.
C12_InvalidConfiguration ==
    (result.op = "preprocessData" /\ InvalidConfiguration)
        => (result.status = "error" /\ result.error = ErrInvalidConfiguration)

(***************************************************************************)
(* The parameter table across a session (Spec).                            *)
(***************************************************************************)
\* entry is the {min, max, range} of column's own values.
OwnEntry(entry, column) ==
    /\ IsMinOf(entry.min, column)
    /\ IsMaxOf(entry.max, column)
    /\ entry.range = IF entry.max = entry.min THEN 1 ELSE entry.max - entry.min

\* The names preprocessData records for the given feature list.
RecordedNames(columns) == {FeatureName(f - 1) : f \in 1..Len(columns)} \cup {"target"}

\* C13: every preprocessData that normalizes records, for each feature index,
\* the min/max/range of that feature column's own values and, under the
\* separate name "target", those of the target column; entries recorded
\* under any other name are left as they were.
C13_PerColumnParams ==
    [][(result'.op = "preprocessData" /\ result'.error \notin {ErrNoData, ErrType}) =>
          /\ \A f \in 1..Len(featureColumns') :
                /\ HasParams(normalizationParams', FeatureName(f - 1))
                /\ OwnEntry(normalizationParams'[FeatureName(f - 1)],
                            Column(data'.rows, featureColumns'[f]))
          /\ HasParams(normalizationParams', "target")
          /\ OwnEntry(normalizationParams'["target"], Column(data'.rows, targetColumn'))
          /\ \A n \in DOMAIN normalizationParams \ RecordedNames(featureColumns') :
                /\ HasParams(normalizationParams', n)
                /\ normalizationParams'[n] = normalizationParams[n]
      ]_vars

\* A two-feature file whose target column is its second feature: the two
\* features have different entries and the target has its own.
C13_Witness ==
    /\ PreprocessReturned
    /\ featureColumns = <<"Price", "Close">>
    /\ targetColumn = "Close"
    /\ Len(data.rows) = MaxRows
    /\ normalizationParams["feature_0"] # normalizationParams["feature_1"]
    /\ normalizationParams["target"] = normalizationParams["feature_1"]
    /\ normalizationParams["target"].min = 21

\* C14: a recorded {min, max, range} entry never changes value and is never
\* removed by any operation other than dispose.
C14_ReadOnlyParams ==
    [][result'.op # "dispose" =>
          \A n \in DOMAIN normalizationParams :
              /\ HasParams(normalizationParams', n)
              /\ normalizationParams'[n] = normalizationParams[n]
      ]_vars

(***************************************************************************)
(* The row sequence across a session (Spec).                               *)
(***************************************************************************)
\* row holds the cells of line, header by header.
RowOfLine(headers, line, row) ==
    IF Len(headers) = 1 THEN row["Close"] = line[1]
    ELSE \A j \in 1..Len(headers) : row[headers[j]] = line[j]

\* rows are lines in the order of the file: the rows are the lines of a set
\* kept of line numbers, the k-th row from the k-th smallest number of kept,
\* and only lines of a one-column file with a value that is not positive are
\* left out.
OrderPreserved(csv, rows) ==
    \E kept \in SUBSET (1..Len(csv.lines)) :
        /\ Cardinality(kept) = Len(rows)
        /\ \A i \in kept :
              RowOfLine(csv.headers, csv.lines[i],
                        rows[Cardinality({j \in kept : j <= i})])
        /\ \A i \in (1..Len(csv.lines)) \ kept :
              Len(csv.headers) = 1 /\ csv.lines[i][1] <= 0

\* C15: a successful parseCSV stores the file's lines in file order, dropped
\* lines aside, and preprocessData, getLatestWindow, getStats and
\* denormalizeArray leave the row sequence exactly as it was.
C15_RowOrder ==
    [][/\ (result'.op = "parseCSV" /\ result'.status = "ok")
            => (~data'.null /\ OrderPreserved(result'.args[1], data'.rows))
       /\ result'.op \in BuilderOps => data' = data
      ]_vars

\* A one-column file of three lines whose second line is dropped.
C15_Witness ==
    /\ result.op = "parseCSV"
    /\ result.status = "ok"
    /\ Len(result.args[1].lines) = 3
    /\ data.rows = <<[Close |-> 2], [Close |-> 4]>>

C17_IsTrainingSettles ==
    [][/\ isTraining' => (Len(runs') > 0 /\ runs'[Len(runs')].status = "fitting")
       /\ (gruResult' # gruResult /\ gruResult'.op = "train"
              /\ gruResult'.error \in {ErrModelNotBuilt, ErrNoTrainingData})
            => (isTraining' = isTraining /\ runs' = runs)
       /\ \A r \in 1..Len(runs) :
              (Fitting(r) /\ runs'[r].status # "fitting") => ~isTraining'
       /\ gruResult'.op = "stopTraining" => ~isTraining'
      ]_vars

\* A run that fit rejected after its first epoch.
C17_Witness ==
    /\ Len(runs) = 1
    /\ runs[1].status = "rejected"
    /\ runs[1].epoch = 1
    /\ gruResult = GruThrown("train", ErrFit)
    /\ ~isTraining

\* C18: stopTraining sets the stop flag of the model every run on this.model
\* is fitting; a fitting run whose model has the flag set ends with the epoch
\* in progress, its onTrainEnd called then and called once; onTrainEnd is
\* called once for a run that resolved and never for one that fit rejected;
\* and a run that was fitting when stopTraining was called eventually
\* settles.
C18_StopEndsRun ==
    /\ [][/\ gruResult'.op = "stopTraining" =>
                (\A q \in 1..Len(runs') :
                    (runs'[q].status = "fitting" /\ runs'[q].model = model')
                        => tfModels'[model'].stopTraining)
           /\ \A r \in 1..Len(runs) :
                /\ (Fitting(r) /\ tfModels[runs[r].model].stopTraining
                       /\ runs'[r].epoch > runs[r].epoch)
                    => runs'[r].status = "resolved"
                /\ runs'[r].trainEnds = IF runs'[r].status = "resolved" THEN 1 ELSE 0
          ]_vars
    /\ \A r \in 1..MaxRuns :
          (r <= Len(runs) /\ Fitting(r) /\ gruResult.op = "stopTraining")
              ~> (r <= Len(runs) /\ ~Fitting(r))

\* One run, stopped during its first epoch: it resolved after that epoch.
C18_Witness ==
    /\ Len(runs) = 1
    /\ runs[1].status = "resolved"
    /\ runs[1].epoch = 1
    /\ runs[1].epoch < MaxEpochs
    /\ runs[1].trainEnds = 1
    /\ tfModels[1].stopTraining
    /\ gruResult = GruReturned("train", 1)

ModelOps == {"predict", "evaluate", "forecast", "saveWeights"}

\* C19: predict, evaluate, forecast and saveWeights called while this.model
\* is null fail with 'Model not trained' and leave this.model and every tf
\* model as they were; this.model is null until the first buildModel and
\* after every dispose.
C19_NoModelCalls ==
    [][/\ (gruResult'.op \in ModelOps /\ model = 0) =>
              /\ gruResult' = GruThrown(gruResult'.op, ErrModelNotTrained)
              /\ model' = 0
              /\ tfModels' = tfModels
       /\ gruResult'.op = "dispose" => model' = 0
       /\ tfModels' = <<>> => model' = 0
      ]_vars

\* forecast called after the only model built was disposed.
C19_Witness ==
    /\ gruResult = GruThrown("forecast", ErrModelNotTrained)
    /\ model = 0
    /\ Len(tfModels) = 1
    /\ tfModels[1].disposed

\* C20: makePredictions called while isModelTrained is false, or while the
\* DataLoader holds no rows, calls nothing of the GRU model and leaves
\* this.predictions as it was, and no step of the application changes the
\* predictions otherwise; trainModel called while this.datasets is null
\* builds no model and starts no run, no step of the application does so
\* while the datasets are null, and the datasets are only ever assigned by a
\* loadAndPrepareData whose preprocessData returned.
C20_GuardedHandlers ==
    [][/\ (MakePredictions /\ (~isModelTrained \/ NoData))
            => UNCHANGED <<predictions, gruVars>>
       /\ predictions' # predictions => (isModelTrained /\ ~NoData)
       /\ (TrainModel /\ datasets.null) => UNCHANGED gruVars
       /\ (Len(tfModels') > Len(tfModels) \/ Len(runs') > Len(runs))
            => ~datasets.null
       /\ datasets' # datasets
            => appResult' = AppOutcome("loadAndPrepareData", "done")
      ]_vars

\* makePredictions turned away after a training run resolved, because the
\* file loaded since left the DataLoader without rows.
C20_Witness ==
    /\ appResult = AppOutcome("makePredictions", "rejected")
    /\ isModelTrained
    /\ NoData
    /\ ~datasets.null
    /\ predictions = <<>>

\* C21: a trainModel call made on the instance while isTraining is set
\* returns at once, having prepared no datasets, created no model and left
\* this.model and isTraining alone; the step in which a started call leaves
\* its last await, by finishing or by an error, and the step of a call that
\* fails before its first await, leave isTraining false; so isTraining is set
\* exactly while a call is awaiting, at most one call is awaiting at a time,
\* and a call made after that one has ended passes the guard.
C21_NotReentrant ==
    [][/\ (Len(trainCalls') > Len(trainCalls) /\ instIsTraining) =>
              /\ trainCalls'[Len(trainCalls')].status = "returned"
              /\ ~trainCalls'[Len(trainCalls')].prepared
              /\ trainCalls'[Len(trainCalls')].model = 0
              /\ instModel' = instModel
              /\ instIsTraining'
       /\ \A c \in 1..Len(trainCalls) :
              (InProgress(c) /\ trainCalls'[c].status \notin AwaitPoints)
                  => ~instIsTraining'
       /\ (Len(trainCalls') > Len(trainCalls)
              /\ trainCalls'[Len(trainCalls')].status = "failed")
            => ~instIsTraining'
       /\ Cardinality({c \in 1..Len(trainCalls') :
                          trainCalls'[c].status \in AwaitPoints}) <= 1
       /\ instIsTraining' <=>
              \E c \in 1..Len(trainCalls') : trainCalls'[c].status \in AwaitPoints
       /\ (Len(trainCalls') > Len(trainCalls) /\ ~instIsTraining /\ normalizedData)
            => trainCalls'[Len(trainCalls')].prepared
      ]_vars

\* A call turned away while the first was evaluating its model, and a third
\* call training a second model after the first had finished.
C21_Witness ==
    /\ Len(trainCalls) = 3
    /\ trainCalls[1].status = "done"
    /\ trainCalls[2].status = "returned"
    /\ trainCalls[3].status = "train"
    /\ trainCalls[3].model = 2
    /\ instIsTraining

\* C22: every invocation of handler that has returned carries a response:
\* statusCode 500 with the message of the error exactly when one of its
\* steps threw; otherwise 200 when its action is save, list or analyze and
\* 400 for any other or no action, where its action is the one of the query
\* string when that is a non-empty string and the one of the body otherwise.
C22_HandlerResponds ==
    \A i \in 1..Len(invocations) :
        LET inv == invocations[i]
            action == IF inv.event.query \notin {"absent", ""}
                      THEN inv.event.query
                      ELSE inv.event.body.action
        IN  inv.pc = "done" =>
                /\ inv.response.statusCode \in {StatusOk, StatusBadRequest, StatusError}
                /\ (inv.threw # "none") <=> (inv.response.statusCode = StatusError)
                /\ inv.response.statusCode = StatusError =>
                       inv.response.body \in
                           {ErrDriver, ErrSession, ErrSyntax, ErrNullRead, ErrQuery}
                /\ inv.threw = "none" =>
                       inv.response.statusCode =
                           IF action \in NoteActions THEN StatusOk ELSE StatusBadRequest
                /\ inv.event.body.kind = "invalid" => inv.response.statusCode = StatusError

\* list asked for in the query string and save in the body: the notes are
\* listed.
C22_Witness ==
    \E i \in 1..Len(invocations) :
        /\ invocations[i].pc = "done"
        /\ invocations[i].event = [query |-> "list",
                                   body |-> [kind |-> "object", action |-> "save"]]
        /\ invocations[i].response = Ok("notes")
        /\ driver = "created"

\* C23: when a training run ends with onTrainEnd after k epochs, the epochs
\* recorded in trainingHistory are exactly 1..k, those of that run (the five
\* arrays of trainingHistory are pushed together, so they are as long as
\* the epochs array).
C23_HistoryOfRun ==
    [][\A r \in 1..Len(runs) :
           (Fitting(r) /\ runs'[r].status = "resolved")
               => trainingHistory' = [e \in 1..runs'[r].epoch |-> e]
      ]_vars

\* C24: on the page, gruModel.forecast is never called while a training run
\* is in progress on the model it uses.
C24_NoForecastWhileTraining ==
    [][(gruResult' # gruResult /\ gruResult'.op = "forecast")
           => ~\E r \in 1..Len(runs) : Fitting(r) /\ runs[r].model = model
      ]_vars

\* C25: on the page, no training run starts while an earlier one is still
\* fitting, so at most one run is in progress at any time.
C25_OneRunAtATime ==
    [][Len(runs') > Len(runs) => ~\E r \in 1..Len(runs) : Fitting(r)]_vars

\* C26: after a preprocessData that returned, the normalization-parameter
\* table holds an entry for each index of the current feature columns, one
\* for the target, and no other entry.
C26_ExactlyCurrentParams ==
    PreprocessReturned => DOMAIN normalizationParams = RecordedNames(featureColumns)

====
